---- MODULE Spec2Model ----
(***************************************************************************)
(* Payment-session reconciliation of jinzmedia-atmt:                       *)
(*   services/payment.go   PaymentService.InitiatePayment,                 *)
(*                         PaymentService.ProcessWebhookPayment            *)
(*   handlers/payment.go   PaymentHandler.InitiatePayment (HTTP mapping)   *)
(*   models/payment.go     Payment, PaymentSession, PaymentStatus          *)
(*   models/user.go        User                                            *)
(*                                                                         *)
(* The three MongoDB collections (users, payment_sessions, payments) are   *)
(* the shared state.  Every call of a service method is split at its       *)
(* store operations: one action runs the local code up to and including    *)
(* one store operation, so that calls of different requests interleave     *)
(* exactly where the Go code can be preempted observably.                  *)
(*                                                                         *)
(* Strings are sequences of one-character strings, so that ToUpper, Index  *)
(* and slicing are computed as the Go code computes them.                  *)
(***************************************************************************)
EXTENDS Integers, Sequences, FiniteSets, TLC

\* ------------------------------------------------------------------------
\* Bounds of the model
\* ------------------------------------------------------------------------

\* InitiatePayment calls ever started.
MaxInitiates == 2

\* ProcessWebhookPayment calls ever started.
MaxWebhooks == 2

\* The instants (minutes) at which the clock is observed; 16 lies past the
\* expiry of a session created at 0.
ClockTimes == {0, 8, 16}

\* ------------------------------------------------------------------------
\* Program constants
\* ------------------------------------------------------------------------

\* amount := int64(5000000); payment.TransferAmount != 5000000
Price == 5000000

\* now.Add(15 * time.Minute)
ExpiryMinutes == 15

\* b := make([]byte, 8)
CodeLen == 8

\* len(content) < atMTIndex+12
MarkerPlusCode == 12

\* the literal "ATMT"
Marker == <<"A", "T", "M", "T">>

\* models.PaymentStatus
PaymentStatusPending == "pending"

PaymentStatusProcessed == "processed"

PaymentStatusCompleted == "completed"

PaymentStatusExpired == "expired"

PaymentStatusFailed == "failed"

PaymentStatusIgnored == "ignored"

\* ------------------------------------------------------------------------
\* Strings
\* ------------------------------------------------------------------------

LowerLetters == <<"a", "b", "c", "d", "e", "f", "g", "h", "i", "j", "k", "l", "m",
                  "n", "o", "p", "q", "r", "s", "t", "u", "v", "w", "x", "y", "z">>

UpperLetters == <<"A", "B", "C", "D", "E", "F", "G", "H", "I", "J", "K", "L", "M",
                  "N", "O", "P", "Q", "R", "S", "T", "U", "V", "W", "X", "Y", "Z">>

\* strings.ToUpper on one character
ToUpperChar(c) ==
    IF \E i \in 1..Len(LowerLetters) : LowerLetters[i] = c
    THEN UpperLetters[CHOOSE i \in 1..Len(LowerLetters) : LowerLetters[i] = c]
    ELSE c

\* strings.ToUpper
ToUpper(s) == [i \in 1..Len(s) |-> ToUpperChar(s[i])]

\* s[lo:hi] of Go (0-based, hi exclusive)
Slice(s, lo, hi) == SubSeq(s, lo + 1, hi)

\* whether sub occurs in s at 0-based offset i
OccursAt(s, sub, i) ==
    /\ i >= 0
    /\ i + Len(sub) <= Len(s)
    /\ Slice(s, i, i + Len(sub)) = sub

\* strings.Index: the 0-based offset of the first occurrence, or -1
Index(s, sub) ==
    IF \E i \in 0..Len(s) : OccursAt(s, sub, i)
    THEN CHOOSE i \in 0..Len(s) :
            /\ OccursAt(s, sub, i)
            /\ \A j \in 0..(i - 1) : ~OccursAt(s, sub, j)
    ELSE -1

\* ------------------------------------------------------------------------
\* The parse of ProcessWebhookPayment (payment.go:127-177)
\* ------------------------------------------------------------------------

\* AmountMismatch that lets an overpayment through.
AmountMismatch_Under(amount) == amount < Price

\* payment.TransferAmount != 5000000
AmountMismatch(amount) == amount # Price

\* AtMTIndex searching the content as received, letter case kept.
AtMTIndex_CaseSensitive(content) == Index(content, Marker)

\* AtMTIndex that takes the last occurrence of the marker (strings.LastIndex).
AtMTIndex_Last(content) ==
    LET s == ToUpper(content) IN
    IF \E i \in 0..Len(s) : OccursAt(s, Marker, i)
    THEN CHOOSE i \in 0..Len(s) :
            /\ OccursAt(s, Marker, i)
            /\ \A j \in (i + 1)..Len(s) : ~OccursAt(s, Marker, j)
    ELSE -1

\* atMTIndex := strings.Index(strings.ToUpper(payment.Content), "ATMT")
AtMTIndex(content) == Index(ToUpper(content), Marker)

\* CodeTooShort with the boundary moved by one.
CodeTooShort_OffByOne(content) ==
    Len(ToUpper(content)) <= AtMTIndex(content) + MarkerPlusCode

\* len(content) < atMTIndex+12
CodeTooShort(content) == Len(ToUpper(content)) < AtMTIndex(content) + MarkerPlusCode

\* ExtractCode that slices the content as received, not its upper-cased copy.
ExtractCode_Verbatim(content) ==
    Slice(content, AtMTIndex(content) + Len(Marker),
          AtMTIndex(content) + MarkerPlusCode)

\* paymentCode := content[atMTIndex+4 : atMTIndex+12], content the upper-cased text
ExtractCode(content) ==
    Slice(ToUpper(content), AtMTIndex(content) + Len(Marker),
          AtMTIndex(content) + MarkerPlusCode)

\* The branch of lines 127-177 a webhook takes: the error it returns before
\* any lookup, or "lookup" when the code goes on to find the user.
ParseOutcome(amount, content) ==
    IF AmountMismatch(amount) THEN "incorrect payment amount"
    ELSE IF AtMTIndex(content) = -1 THEN "payment code not found in content"
    ELSE IF CodeTooShort(content) THEN "invalid payment code format in content"
    ELSE "lookup"

\* ------------------------------------------------------------------------
\* Identities, codes and inputs
\* ------------------------------------------------------------------------

\* The documents of the users collection (auth.Register inserts them with
\* owned = false, is_banned = false and no payment_code).
Users == {"u1", "u2"}

\* A well-formed ObjectID that no user document carries.
GhostUser == "u0"

UserIds == Users \cup {GhostUser}

\* The requests in flight at one time.
Procs == {"p1", "p2"}

\* *primitive.ObjectID nil
NoUser == "nil"

\* the zero string: a user document without payment_code
NoCode == << >>

\* *time.Time nil
NoTime == -1

Code1 == <<"A", "B", "1", "2", "C", "D", "3", "4">>

Code2 == <<"Z", "9", "Y", "8", "X", "7", "W", "6">>

\* The values generatePaymentCode returns in this model: 8 symbols of
\* "ABCDEFGHIJKLMNOPQRSTUVWXYZ0123456789" each.
Codes == {Code1, Code2}

\* Code1 in lower case, as a bank may relay it
Code1Lower == <<"a", "b", "1", "2", "c", "d", "3", "4">>

\* " ck": text that follows the code in a transfer description
TailText == <<" ", "c", "k">>

\* The webhooks of the concurrent specifications.
Webhooks ==
    {[amount |-> Price, content |-> Marker \o Code1 \o TailText],
     [amount |-> Price, content |-> Marker \o Code2],
     [amount |-> 3000000, content |-> Marker \o Code1 \o TailText]}

\* Transfer descriptions that exercise the parse: the marker in upper, lower
\* and mixed case, absent, cut short, repeated and overlapping; the code
\* complete, in lower case, one character short, and missing.
ParseContents ==
    {Marker \o Code1,
     Marker \o Code1 \o TailText,
     Marker \o Code2,
     <<"a", "t", "m", "t">> \o Code1,
     <<"A", "t", "M", "t">> \o Code1 \o TailText,
     Marker \o Code1Lower,
     <<"c", "k", " ">> \o Marker \o Code1,
     Marker \o SubSeq(Code1, 1, 7),
     <<"c", "k", " ">> \o Marker \o SubSeq(Code1, 1, 7),
     Marker,
     Marker \o <<"X", " ">> \o Marker \o Code1,
     <<"A", "T">> \o Marker \o Code1,
     <<"A", "T", "M">>,
     <<"A", "T", " ", "M", "T">> \o Code1,
     Code1,
     << >>}

\* The webhooks of the parse specification.
ParseWebhooks ==
    [amount : {Price, Price - 1, Price + 1, 3000000}, content : ParseContents]

AllWebhooks == Webhooks \cup ParseWebhooks

\* ------------------------------------------------------------------------
\* State
\* ------------------------------------------------------------------------

VARIABLES
    users,      \* users collection: id -> [owned, banned, code]
    sessions,   \* payment_sessions collection, in insertion order
    payments,   \* payments collection (the ledger), in insertion order
    calls,      \* per request: the running service call and what it returned
    now,        \* time.Now(), in minutes
    started     \* calls started so far, by operation

vars == <<users, sessions, payments, calls, now, started>>

\* The users collection before any payment: auth.Register inserts every user
\* with owned = false, is_banned = false and no payment_code.
NewUsers == [u \in Users |-> [owned |-> FALSE, banned |-> FALSE, code |-> NoCode]]

\* A request that runs no call.  Beside the locals of the Go code a call
\* keeps what the properties need to speak about it: trace (the checks and
\* store operations it ran, in order), sid (the session it inserted or
\* matched), lid (its ledger entry), and the collections as they were when
\* it started (preSessions, preUsers).
IdleCall ==
    [op |-> "none", pc |-> "idle", uid |-> NoUser, amount |-> 0, content |-> << >>,
     code |-> NoCode, user |-> NoUser, status |-> PaymentStatusPending,
     puser |-> NoUser, sid |-> 0, lid |-> 0, ret |-> "nil", err |-> "none",
     trace |-> << >>, preSessions |-> << >>, preUsers |-> NewUsers]

\* models.PaymentSession as InitiatePayment builds it (payment.go:92-101)
NewSession(uid, code, t) ==
    [user |-> uid, code |-> code, amount |-> Price, status |-> PaymentStatusPending,
     createdAt |-> t, expiresAt |-> t + ExpiryMinutes, completedAt |-> NoTime]

\* models.Payment as saved by ProcessWebhookPayment: the payload of ToPayment
\* with the status and user id the call has set.
LedgerEntry(c) ==
    [amount |-> c.amount, content |-> c.content, status |-> c.status, user |-> c.puser]

Init ==
    /\ users = NewUsers
    /\ sessions = << >>
    /\ payments = << >>
    /\ calls = [p \in Procs |-> IdleCall]
    /\ now = 0
    /\ started = [initiate |-> 0, webhook |-> 0]

\* Whether request slot p runs no call.
Free(p) == calls[p].pc \in {"idle", "done"}

\* A new request takes the first free slot (Procs in the order "p1", "p2").
CanStart(p) ==
    /\ Free(p)
    /\ p = "p2" => ~Free("p1")

\* The calls started, one more InitiatePayment counted.
OneMoreInitiate ==
    /\ started.initiate < MaxInitiates
    /\ started' = [started EXCEPT !.initiate = @ + 1]

\* The calls started, one more ProcessWebhookPayment counted.
OneMoreWebhook ==
    /\ started.webhook < MaxWebhooks
    /\ started' = [started EXCEPT !.webhook = @ + 1]

\* The call of p returns: value is "nil" or "value" (the first result), err the error.
Return(c, value, err) == [c EXCEPT !.pc = "done", !.ret = value, !.err = err]

\* ------------------------------------------------------------------------
\* Store queries
\* ------------------------------------------------------------------------

\* userCollection.FindOne({"payment_code": code}): the documents that match
UsersWithCode(code) == {u \in Users : users[u].code = code}

\* CountSessions that counts the pending sessions only.
CountSessions_PendingOnly(code) ==
    Cardinality({i \in 1..Len(sessions) :
                    /\ sessions[i].code = code
                    /\ sessions[i].status = PaymentStatusPending})

\* paymentSessionCollection.CountDocuments({"payment_code": code})
CountSessions(code) == Cardinality({i \in 1..Len(sessions) : sessions[i].code = code})

\* PendingWithCode that leaves out the sessions past their expiry.
PendingWithCode_NotExpired(code) ==
    {i \in 1..Len(sessions) :
        /\ sessions[i].code = code
        /\ sessions[i].status = PaymentStatusPending
        /\ sessions[i].expiresAt >= now}

\* PendingWithCode with the status left out of the filter.
PendingWithCode_AnyStatus(code) ==
    {i \in 1..Len(sessions) : sessions[i].code = code}

\* the filter {"payment_code": code, "status": pending} of the conditional update
PendingWithCode(code) ==
    {i \in 1..Len(sessions) :
        sessions[i].code = code /\ sessions[i].status = PaymentStatusPending}

\* ------------------------------------------------------------------------
\* The environment
\* ------------------------------------------------------------------------

\* An operator sets or clears is_banned on a user document.
SetBanned(u, b) ==
    /\ users[u].banned # b
    /\ users' = [users EXCEPT ![u].banned = b]
    /\ UNCHANGED <<sessions, payments, calls, now, started>>

\* Time passes.
Tick ==
    /\ \E t \in ClockTimes : t > now /\ now' = t
    /\ UNCHANGED <<users, sessions, payments, calls, started>>

\* ------------------------------------------------------------------------
\* PaymentService.InitiatePayment (payment.go:45-118)
\* ------------------------------------------------------------------------

\* InitiateCheck with the check of owned left out.
InitiateCheck_NoOwnedCheck(uid) ==
    IF uid \notin DOMAIN users THEN "user not found"
    ELSE IF users[uid].banned THEN "user is banned and cannot make payments"
    ELSE "none"

\* The precondition checks of lines 48-64 on the user document found:
\* the error returned, or "none".
InitiateCheck(uid) ==
    IF uid \notin DOMAIN users THEN "user not found"
    ELSE IF users[uid].banned THEN "user is banned and cannot make payments"
    ELSE IF users[uid].owned THEN "user already owns the product"
    ELSE "none"

\* Lines 46-64: FindOne by _id, then the banned and owned checks.
InitiateBegin(p, uid) ==
    /\ CanStart(p)
    /\ OneMoreInitiate
    /\ LET c == [IdleCall EXCEPT !.op = "initiate", !.uid = uid,
                                 !.trace = <<"findUser">>]
           e == InitiateCheck(uid)
       IN calls' = [calls EXCEPT ![p] =
                      IF e = "none" THEN [c EXCEPT !.pc = "genCode"]
                      ELSE Return(c, "nil", e)]
    /\ UNCHANGED <<users, sessions, payments, now>>

\* Lines 68-78, one turn of the loop: generate a code and count the sessions
\* that carry it; leave the loop when there is none.
GenerateCode(p) ==
    /\ calls[p].pc = "genCode"
    /\ \E code \in Codes :
          calls' = [calls EXCEPT ![p].code = code,
                                 ![p].pc = IF CountSessions(code) = 0
                                           THEN "insertSession" ELSE "genCode"]
    /\ UNCHANGED <<users, sessions, payments, now, started>>

\* Lines 80-107: build the session at time.Now() and insert it.
InsertSession(p) ==
    /\ calls[p].pc = "insertSession"
    /\ sessions' = Append(sessions, NewSession(calls[p].uid, calls[p].code, now))
    /\ calls' = [calls EXCEPT ![p].pc = "updateUserCode",
                              ![p].sid = Len(sessions) + 1,
                              ![p].trace = Append(@, "insertSession")]
    /\ UNCHANGED <<users, payments, now, started>>

\* UpdateUserCode that keeps a payment_code the user holds already.
UpdateUserCode_KeepFirst(p) ==
    /\ calls[p].pc = "updateUserCode"
    /\ users' = [users EXCEPT ![calls[p].uid].code =
                    IF @ = NoCode THEN calls[p].code ELSE @]
    /\ calls' = [calls EXCEPT ![p] =
                   Return([@ EXCEPT !.trace = Append(@, "updateUserCode")],
                          "value", "none")]
    /\ UNCHANGED <<sessions, payments, now, started>>

\* Lines 109-117: set the user's payment_code and return the session.
UpdateUserCode(p) ==
    /\ calls[p].pc = "updateUserCode"
    /\ users' = [users EXCEPT ![calls[p].uid].code = calls[p].code]
    /\ calls' = [calls EXCEPT ![p] =
                   Return([@ EXCEPT !.trace = Append(@, "updateUserCode")],
                          "value", "none")]
    /\ UNCHANGED <<sessions, payments, now, started>>

\* handlers/payment.go:40-58: the HTTP status of an InitiatePayment result.
InitiateHttpStatus(err) ==
    IF err = "none" THEN 200
    ELSE IF err = "user not found" THEN 404
    ELSE IF err = "user is banned and cannot make payments" THEN 403
    ELSE IF err = "user already owns the product" THEN 409
    ELSE 500

\* ------------------------------------------------------------------------
\* PaymentService.ProcessWebhookPayment (payment.go:121-280)
\* ------------------------------------------------------------------------

\* Lines 127-177 on every webhook of the model, computed once: the branch
\* taken and the code extracted (NoCode when none is).  The trailing @@ makes
\* the table an explicit function, so that it is not recomputed at each use.
Parsed ==
    [w \in AllWebhooks |->
        [outcome |-> ParseOutcome(w.amount, w.content),
         code |-> IF ParseOutcome(w.amount, w.content) = "lookup"
                  THEN ExtractCode(w.content) ELSE NoCode]] @@ << >>

\* The checks of lines 127-177 that ran, by the branch taken.
ParseTrace(outcome) ==
    IF outcome = "incorrect payment amount" THEN <<"amount">>
    ELSE IF outcome = "payment code not found in content" THEN <<"amount", "marker">>
    ELSE <<"amount", "marker", "length">>

\* webhook.ToPayment() and what the call knows of the collections at its start
WebhookCall(w) ==
    [IdleCall EXCEPT !.op = "webhook", !.amount = w.amount, !.content = w.content,
                     !.status = PaymentStatusPending,
                     !.preSessions = sessions, !.preUsers = users]

\* paymentCollection.InsertOne(payment) followed by the return of the branch:
\* the payment and the error the branch has chosen.
SaveAndReturn(c) ==
    Return([c EXCEPT !.lid = Len(payments) + 1, !.trace = Append(@, "save")],
           "value", c.err)

\* Lines 127-177 for a webhook that fails a check: the payment is marked
\* ignored and saved, and the call returns it with the error of the check.
WebhookIgnored(p, w) ==
    /\ CanStart(p)
    /\ OneMoreWebhook
    /\ Parsed[w].outcome # "lookup"
    /\ LET c == [WebhookCall(w) EXCEPT
                    !.status = PaymentStatusIgnored,
                    !.err = Parsed[w].outcome,
                    !.trace = ParseTrace(Parsed[w].outcome)]
       IN /\ payments' = Append(payments, LedgerEntry(c))
          /\ calls' = [calls EXCEPT ![p] = SaveAndReturn(c)]
    /\ UNCHANGED <<users, sessions, now>>

\* AfterFindUser with the banned check left out.
AfterFindUser_NoBanCheck(c, found) ==
    IF found = NoUser
    THEN [c EXCEPT !.status = PaymentStatusFailed, !.pc = "save",
                   !.err = "no user found with payment code"]
    ELSE [c EXCEPT !.user = found, !.pc = "updateSession",
                   !.trace = Append(@, "banned")]

\* AfterFindUser that resolves a code no user holds as ignored.
AfterFindUser_NoUserIgnored(c, found) ==
    IF found = NoUser
    THEN [c EXCEPT !.status = PaymentStatusIgnored, !.pc = "save",
                   !.err = "no user found with payment code"]
    ELSE IF users[found].banned
    THEN [c EXCEPT !.user = found, !.status = PaymentStatusFailed, !.pc = "save",
                   !.err = "user is banned",
                   !.trace = Append(@, "banned")]
    ELSE [c EXCEPT !.user = found, !.pc = "updateSession",
                   !.trace = Append(@, "banned")]

\* The call after FindOne({"payment_code": code}) and the banned check
\* (lines 179-214), found being the document FindOne decoded, or NoUser.
AfterFindUser(c, found) ==
    IF found = NoUser
    THEN [c EXCEPT !.status = PaymentStatusFailed, !.pc = "save",
                   !.err = "no user found with payment code"]
    ELSE IF users[found].banned
    THEN [c EXCEPT !.user = found, !.status = PaymentStatusFailed, !.pc = "save",
                   !.err = "user is banned",
                   !.trace = Append(@, "banned")]
    ELSE [c EXCEPT !.user = found, !.pc = "updateSession",
                   !.trace = Append(@, "banned")]

\* Lines 127-214 for a webhook that passes the checks: extract the code and
\* find the user who holds it as payment_code.
WebhookLookup(p, w) ==
    /\ CanStart(p)
    /\ OneMoreWebhook
    /\ Parsed[w].outcome = "lookup"
    /\ LET code == Parsed[w].code
           c == [WebhookCall(w) EXCEPT
                    !.code = code,
                    !.trace = Append(ParseTrace("lookup"), "findUser")]
       IN IF UsersWithCode(code) = {}
          THEN calls' = [calls EXCEPT ![p] = AfterFindUser(c, NoUser)]
          ELSE \E u \in UsersWithCode(code) :
                  calls' = [calls EXCEPT ![p] = AfterFindUser(c, u)]
    /\ UNCHANGED <<users, sessions, payments, now>>

\* UpdateSession that sets the status of payments, processed, on the session.
UpdateSession_PaymentStatus(p) ==
    /\ calls[p].pc = "updateSession"
    /\ LET c == [calls[p] EXCEPT !.trace = Append(@, "updateSession")]
       IN IF PendingWithCode(c.code) = {}
          THEN /\ calls' = [calls EXCEPT ![p] =
                              [c EXCEPT !.status = PaymentStatusFailed, !.pc = "save",
                                        !.err = "no pending payment session found for code"]]
               /\ UNCHANGED sessions
          ELSE \E i \in PendingWithCode(c.code) :
                  /\ sessions' = [sessions EXCEPT
                                    ![i].status = PaymentStatusProcessed,
                                    ![i].completedAt = now]
                  /\ calls' = [calls EXCEPT ![p] =
                                 [c EXCEPT !.sid = i, !.pc = "updateUser"]]
    /\ UNCHANGED <<users, payments, now, started>>

\* Lines 216-247: the conditional update of the session with this code that is
\* pending; with no match the payment is marked failed.
UpdateSession(p) ==
    /\ calls[p].pc = "updateSession"
    /\ LET c == [calls[p] EXCEPT !.trace = Append(@, "updateSession")]
       IN IF PendingWithCode(c.code) = {}
          THEN /\ calls' = [calls EXCEPT ![p] =
                              [c EXCEPT !.status = PaymentStatusFailed, !.pc = "save",
                                        !.err = "no pending payment session found for code"]]
               /\ UNCHANGED sessions
          ELSE \E i \in PendingWithCode(c.code) :
                  /\ sessions' = [sessions EXCEPT
                                    ![i].status = PaymentStatusCompleted,
                                    ![i].completedAt = now]
                  /\ calls' = [calls EXCEPT ![p] =
                                 [c EXCEPT !.sid = i, !.pc = "updateUser"]]
    /\ UNCHANGED <<users, payments, now, started>>

\* UpdateUser with the $set of owned left out.
UpdateUser_NoGrant(p) ==
    /\ calls[p].pc = "updateUser"
    /\ users' = [users EXCEPT ![calls[p].user].code = NoCode]
    /\ calls' = [calls EXCEPT ![p].status = PaymentStatusProcessed,
                              ![p].puser = calls[p].user,
                              ![p].pc = "save",
                              ![p].trace = Append(@, "updateUser")]
    /\ UNCHANGED <<sessions, payments, now, started>>

\* UpdateUser with the assignment of the processed status (line 266) left out.
UpdateUser_NoStatus(p) ==
    /\ calls[p].pc = "updateUser"
    /\ users' = [users EXCEPT ![calls[p].user].owned = TRUE,
                              ![calls[p].user].code = NoCode]
    /\ calls' = [calls EXCEPT ![p].puser = calls[p].user,
                              ![p].pc = "save",
                              ![p].trace = Append(@, "updateUser")]
    /\ UNCHANGED <<sessions, payments, now, started>>

\* Lines 249-270: set owned, unset payment_code, mark the payment processed.
UpdateUser(p) ==
    /\ calls[p].pc = "updateUser"
    /\ users' = [users EXCEPT ![calls[p].user].owned = TRUE,
                              ![calls[p].user].code = NoCode]
    /\ calls' = [calls EXCEPT ![p].status = PaymentStatusProcessed,
                              ![p].puser = calls[p].user,
                              ![p].pc = "save",
                              ![p].trace = Append(@, "updateUser")]
    /\ UNCHANGED <<sessions, payments, now, started>>

\* The InsertOne of the failed and processed branches (lines 189, 207, 240,
\* 273) and their return.
SavePayment(p) ==
    /\ calls[p].pc = "save"
    /\ payments' = Append(payments, LedgerEntry(calls[p]))
    /\ calls' = [calls EXCEPT ![p] = SaveAndReturn(calls[p])]
    /\ UNCHANGED <<users, sessions, now, started>>

\* ------------------------------------------------------------------------
\* HandleSepayWebhook (handlers, webhook)
\* ------------------------------------------------------------------------

\* The text "payment already processed" the handler looks for in the error.
AlreadyProcessedText ==
    <<"p", "a", "y", "m", "e", "n", "t", " ", "a", "l", "r", "e", "a",
      "d", "y", " ", "p", "r", "o", "c", "e", "s", "s", "e", "d">>

\* strings.Contains(err.Error(), "payment already processed"): the errors of
\* the marker and length checks end with the content of the webhook, the
\* other errors of ProcessWebhookPayment do not hold the text.
ErrorSaysAlreadyProcessed(c) ==
    /\ c.err \in {"payment code not found in content",
                  "invalid payment code format in content"}
    /\ Index(c.content, AlreadyProcessedText) # -1

\* HandleSepayWebhook that answers a store failure with status 500.
HandleSepayWebhook_RetryOnFailure(c) ==
    IF c.err = "none" THEN [http |-> 200, status |-> "success"]
    ELSE IF c.ret = "nil" THEN [http |-> 500, status |-> "error"]
    ELSE [http |-> 200, status |-> "error"]

\* The answer of HandleSepayWebhook to an authorized, decoded request whose
\* ProcessWebhookPayment call c has returned (lines 39-58).
HandleSepayWebhook(c) ==
    IF c.err = "none" THEN [http |-> 200, status |-> "success"]
    ELSE IF ErrorSaysAlreadyProcessed(c)
    THEN [http |-> 200, status |-> "already_processed"]
    ELSE [http |-> 200, status |-> "error"]

\* ------------------------------------------------------------------------
\* Store failures: a store operation returns an error
\* ------------------------------------------------------------------------

\* The error a call returns when the store operation it is about to run fails.
StoreError(pc) ==
    CASE pc = "genCode" -> "failed to check payment code uniqueness"
      [] pc = "insertSession" -> "failed to create payment session"
      [] pc = "updateUserCode" -> "failed to update user with payment code"
      [] pc = "updateSession" -> "failed to update payment session"
      [] pc = "updateUser" -> "failed to activate user ownership"
      [] pc = "save" -> "failed to save payment"

\* A store operation after the first one of a call fails: the call returns
\* nil and the wrapped error.
StoreFailure(p) ==
    /\ calls[p].pc \notin {"idle", "done"}
    /\ calls' = [calls EXCEPT ![p] = Return(@, "nil", StoreError(calls[p].pc))]
    /\ UNCHANGED <<users, sessions, payments, now, started>>

\* The FindOne of InitiatePayment fails (line 55).
InitiateFindFailure(p, uid) ==
    /\ CanStart(p)
    /\ OneMoreInitiate
    /\ calls' = [calls EXCEPT ![p] =
                   Return([IdleCall EXCEPT !.op = "initiate", !.uid = uid],
                          "nil", "failed to find user")]
    /\ UNCHANGED <<users, sessions, payments, now>>

\* The first store operation of ProcessWebhookPayment fails: the InsertOne of
\* an ignored payment (lines 136, 154, 170) or the FindOne (line 197).
WebhookFirstFailure(p, w) ==
    /\ CanStart(p)
    /\ OneMoreWebhook
    /\ LET o == Parsed[w].outcome
           c == [WebhookCall(w) EXCEPT !.trace = ParseTrace(o)]
       IN calls' = [calls EXCEPT ![p] =
                      IF o = "lookup"
                      THEN Return([c EXCEPT !.code = Parsed[w].code],
                                  "nil", "failed to find user")
                      ELSE Return([c EXCEPT !.status = PaymentStatusIgnored],
                                  "nil", "failed to save payment")]
    /\ UNCHANGED <<users, sessions, payments, now>>

\* ------------------------------------------------------------------------
\* Specifications
\* ------------------------------------------------------------------------

\* Requests interleave at their store operations; the store never fails.
Next ==
    \/ \E p \in Procs, uid \in UserIds : InitiateBegin(p, uid)
    \/ \E p \in Procs : GenerateCode(p)
    \/ \E p \in Procs : InsertSession(p)
    \/ \E p \in Procs : UpdateUserCode(p)
    \/ \E p \in Procs, w \in Webhooks : WebhookIgnored(p, w)
    \/ \E p \in Procs, w \in Webhooks : WebhookLookup(p, w)
    \/ \E p \in Procs : UpdateSession(p)
    \/ \E p \in Procs : UpdateUser(p)
    \/ \E p \in Procs : SavePayment(p)

Spec == Init /\ [][Next]_vars

\* No call is running.
Quiet == \A p \in Procs : calls[p].pc \in {"idle", "done"}

\* No ProcessWebhookPayment call is running.
NoWebhookRunning == \A p \in Procs : calls[p].op = "webhook" => calls[p].pc = "done"

\* Webhooks are delivered one after another, each processed with no other
\* call running; InitiatePayment calls may overlap each other; an operator
\* bans and unbans users between calls.
NextSeq ==
    \/ \E p \in Procs, uid \in UserIds : NoWebhookRunning /\ InitiateBegin(p, uid)
    \/ \E p \in Procs : GenerateCode(p)
    \/ \E p \in Procs : InsertSession(p)
    \/ \E p \in Procs : UpdateUserCode(p)
    \/ \E p \in Procs, w \in Webhooks : Quiet /\ WebhookIgnored(p, w)
    \/ \E p \in Procs, w \in Webhooks : Quiet /\ WebhookLookup(p, w)
    \/ \E p \in Procs : UpdateSession(p)
    \/ \E p \in Procs : UpdateUser(p)
    \/ \E p \in Procs : SavePayment(p)
    \/ \E u \in Users, b \in BOOLEAN : Quiet /\ SetBanned(u, b)

SpecSeq == Init /\ [][NextSeq]_vars

\* One request at a time; the first webhook delivered is any of ParseWebhooks.
NextParse ==
    \/ \E uid \in UserIds : InitiateBegin("p1", uid)
    \/ GenerateCode("p1")
    \/ InsertSession("p1")
    \/ UpdateUserCode("p1")
    \/ \E w \in ParseWebhooks : started.webhook = 0 /\ WebhookIgnored("p1", w)
    \/ \E w \in ParseWebhooks : started.webhook = 0 /\ WebhookLookup("p1", w)
    \/ \E w \in Webhooks : started.webhook > 0 /\ WebhookIgnored("p1", w)
    \/ \E w \in Webhooks : started.webhook > 0 /\ WebhookLookup("p1", w)
    \/ UpdateSession("p1")
    \/ UpdateUser("p1")
    \/ SavePayment("p1")

SpecParse == Init /\ [][NextParse]_vars

\* Requests interleave at their store operations, and any store operation
\* may return an error.
NextFaults ==
    \/ Next
    \/ \E p \in Procs : StoreFailure(p)
    \/ \E p \in Procs, uid \in UserIds : InitiateFindFailure(p, uid)
    \/ \E p \in Procs, w \in Webhooks : WebhookFirstFailure(p, w)

SpecFaults == Init /\ [][NextFaults]_vars

\* One request at a time, and any store operation may return an error.
NextSoloFaults ==
    \/ \E uid \in UserIds : InitiateBegin("p1", uid)
    \/ GenerateCode("p1")
    \/ InsertSession("p1")
    \/ UpdateUserCode("p1")
    \/ \E w \in Webhooks : WebhookIgnored("p1", w)
    \/ \E w \in Webhooks : WebhookLookup("p1", w)
    \/ UpdateSession("p1")
    \/ UpdateUser("p1")
    \/ SavePayment("p1")
    \/ StoreFailure("p1")
    \/ \E uid \in UserIds : InitiateFindFailure("p1", uid)
    \/ \E w \in Webhooks : WebhookFirstFailure("p1", w)

SpecSoloFaults == Init /\ [][NextSoloFaults]_vars

\* One request at a time, while the clock advances.
NextTime ==
    \/ \E uid \in Users : InitiateBegin("p1", uid)
    \/ GenerateCode("p1")
    \/ InsertSession("p1")
    \/ UpdateUserCode("p1")
    \/ \E w \in Webhooks : WebhookIgnored("p1", w)
    \/ \E w \in Webhooks : WebhookLookup("p1", w)
    \/ UpdateSession("p1")
    \/ UpdateUser("p1")
    \/ SavePayment("p1")
    \/ Tick

SpecTime == Init /\ [][NextTime]_vars

\* The codes in the order the stored sessions below carry them.
CodeSeq == <<Code1, Code2>>

\* The payment_sessions collection after user u1 has called InitiatePayment
\* n times, one call after the other, each call drawing the next free code.
StoredSessions(n) == [i \in 1..n |-> NewSession("u1", CodeSeq[i], 0)]

\* The service is constructed on a database that holds what n earlier
\* InitiatePayment calls of u1 have left: n pending sessions, and the code
\* of the last one on the user.
InitStored ==
    /\ \E n \in 0..Len(CodeSeq) :
          /\ sessions = StoredSessions(n)
          /\ users = [NewUsers EXCEPT
                        !["u1"].code = IF n = 0 THEN NoCode ELSE CodeSeq[n]]
    /\ payments = << >>
    /\ calls = [p \in Procs |-> IdleCall]
    /\ now = 0
    /\ started = [initiate |-> 0, webhook |-> 0]

\* InitiatePayment calls interleave at their store operations.
NextInitiate ==
    \/ \E p \in Procs, uid \in UserIds : InitiateBegin(p, uid)
    \/ \E p \in Procs : GenerateCode(p)
    \/ \E p \in Procs : InsertSession(p)
    \/ \E p \in Procs : UpdateUserCode(p)

\* The turn of the loop in which generatePaymentCode returns a code that no
\* session carries.
DrawFreeCode(p) ==
    /\ GenerateCode(p)
    /\ calls'[p].pc = "insertSession"

\* The scheduler runs every goroutine that can take a step, and crypto/rand
\* does not avoid a code for ever: a call that can draw a free code again
\* and again does draw one.
FairRequests ==
    \A p \in Procs :
       /\ WF_vars(GenerateCode(p))
       /\ WF_vars(InsertSession(p))
       /\ WF_vars(UpdateUserCode(p))
       /\ SF_vars(DrawFreeCode(p))

SpecFair == InitStored /\ [][NextInitiate]_vars /\ FairRequests

\* ------------------------------------------------------------------------
\* Vocabulary of the properties
\* ------------------------------------------------------------------------

\* The ProcessWebhookPayment calls that have returned a payment.
ReturnedWebhooks ==
    {p \in Procs : calls[p].op = "webhook" /\ calls[p].pc = "done"
                                           /\ calls[p].ret = "value"}

\* Two characters that are the same letter up to case, or the same character.
SameLetter(a, b) ==
    \/ a = b
    \/ \E i \in 1..Len(LowerLetters) : {a, b} = {LowerLetters[i], UpperLetters[i]}

\* text occurs in content at 0-based offset k, letter case ignored
OccursAnyCase(content, text, k) ==
    /\ k + Len(text) <= Len(content)
    /\ \A j \in 1..Len(text) : SameLetter(content[k + j], text[j])

\* The content holds the marker in some letter case.
HasMarkerAnyCase(content) ==
    \E k \in 0..Len(content) : OccursAnyCase(content, Marker, k)

\* The offset of the leftmost marker, in any letter case.
FirstMarker(content) ==
    CHOOSE k \in 0..Len(content) :
        /\ OccursAnyCase(content, Marker, k)
        /\ \A j \in 0..(k - 1) : ~OccursAnyCase(content, Marker, j)

\* The leftmost marker of the content is followed at once by code, the
\* letter case of both ignored.
CodeFollowsFirstMarker(content, code) ==
    /\ HasMarkerAnyCase(content)
    /\ OccursAnyCase(content, code, FirstMarker(content) + Len(Marker))

\* The content holds "ATMT" followed at once by code, anywhere.
ContainsMarkerAndCode(content, code) ==
    \E k \in 0..Len(content) : OccursAt(content, Marker \o code, k)

\* The ledger entry the returned call c has written carries this status.
LedgerStatusIs(c, status) ==
    /\ c.lid \in 1..Len(payments)
    /\ payments[c.lid].status = status

\* ------------------------------------------------------------------------
\* C1
\* ------------------------------------------------------------------------

\* What C1 promises of session i for the returned call c: the session is
\* completed, its owner owns the product, the ledger entry is processed.
C1_Outcome(c, i) ==
    /\ sessions[i].status = PaymentStatusCompleted
    /\ users[sessions[i].user].owned
    /\ LedgerStatusIs(c, PaymentStatusProcessed)

\* C1 as stated: a webhook of 5,000,000 whose content holds "ATMT" followed by
\* the code of a session that was pending when the call started ends with the
\* session completed, its owner owning, and a processed ledger entry.
C1_AnyPendingSessionIsPaid ==
    \A p \in Procs :
        LET c == calls[p] IN
        (c.op = "webhook" /\ c.pc = "done" /\ c.amount = Price) =>
            \A i \in 1..Len(c.preSessions) :
                (/\ c.preSessions[i].status = PaymentStatusPending
                 /\ ContainsMarkerAndCode(c.content, c.preSessions[i].code))
                => C1_Outcome(c, i)

\* Session i, as the call c found it at its start, can be paid through its
\* code: it is the only pending session with that code, and its owner, who is
\* not banned, is the only user whose payment_code is that code.
Payable(c, i) ==
    LET s == c.preSessions[i] IN
    /\ s.status = PaymentStatusPending
    /\ \A j \in 1..Len(c.preSessions) :
          (j # i /\ c.preSessions[j].code = s.code)
          => c.preSessions[j].status # PaymentStatusPending
    /\ c.preUsers[s.user].code = s.code
    /\ ~c.preUsers[s.user].banned
    /\ \A u \in Users : u # s.user => c.preUsers[u].code # s.code

\* C1, amended: a webhook of 5,000,000, processed with no other call or ban
\* running beside it, whose leftmost marker (in any letter case) is followed by
\* the code (in any letter case) of a session that is payable through its
\* code, ends with that session completed, its owner owning, and a processed
\* ledger entry that links the owner.
C1_PayableSessionIsPaid ==
    \A p \in Procs :
        LET c == calls[p] IN
        (c.op = "webhook" /\ c.pc = "done" /\ c.amount = Price) =>
            \A i \in 1..Len(c.preSessions) :
                (/\ Payable(c, i)
                 /\ CodeFollowsFirstMarker(c.content, c.preSessions[i].code))
                => /\ C1_Outcome(c, i)
                   /\ payments[c.lid].user = sessions[i].user

\* A payable session has been paid by a returned call.
C1_Witness ==
    \E p \in Procs :
        LET c == calls[p] IN
        /\ c.op = "webhook" /\ c.pc = "done" /\ c.amount = Price
        /\ \E i \in 1..Len(c.preSessions) :
              /\ Payable(c, i)
              /\ CodeFollowsFirstMarker(c.content, c.preSessions[i].code)
              /\ C1_Outcome(c, i)

\* ------------------------------------------------------------------------
\* C2
\* ------------------------------------------------------------------------

\* The ledger entries before entry n that are processed and carry the payload
\* of the call c.
ProcessedBefore(c, n) ==
    {k \in 1..(n - 1) :
        /\ payments[k].status = PaymentStatusProcessed
        /\ payments[k].amount = c.amount
        /\ payments[k].content = c.content}

\* C2: a webhook processed after an identical webhook was resolved as
\* processed gets a failed ledger entry, changes no session and no owned flag,
\* and adds no second processed entry.
C2_DuplicateIsFailed ==
    \A p \in ReturnedWebhooks :
        LET c == calls[p] IN
        ProcessedBefore(c, c.lid) # {} =>
            /\ LedgerStatusIs(c, PaymentStatusFailed)
            /\ sessions = c.preSessions
            /\ \A u \in Users : users[u].owned = c.preUsers[u].owned
            /\ Cardinality(ProcessedBefore(c, Len(payments) + 1)) = 1

\* ------------------------------------------------------------------------
\* C3
\* ------------------------------------------------------------------------

\* The calls whose conditional update matched session i (MatchedCount = 1).
MatchedCalls(i) == {p \in Procs : calls[p].op = "webhook" /\ calls[p].sid = i}

\* The processed ledger entries whose payload carries this code.
ProcessedEntries(code) ==
    {k \in 1..Len(payments) :
        /\ payments[k].status = PaymentStatusProcessed
        /\ Parsed[[amount |-> payments[k].amount,
                   content |-> payments[k].content]].code = code}

\* The sessions with this code.
SessionsWithCode(code) == {i \in 1..Len(sessions) : sessions[i].code = code}

\* C3: under every interleaving of the calls, the conditional update matches
\* a session for at most one call; a code carried by one session gets at most
\* one processed ledger entry (in general: at most as many as sessions carry
\* it); and every call that went to the lookup and matched no session has
\* written a failed entry.
C3_AtMostOneMatch ==
    /\ \A i \in 1..Len(sessions) : Cardinality(MatchedCalls(i)) <= 1
    /\ \A code \in Codes :
          Cardinality(ProcessedEntries(code)) <= Cardinality(SessionsWithCode(code))
    /\ \A p \in ReturnedWebhooks :
          (calls[p].code # NoCode /\ calls[p].sid = 0)
          => LedgerStatusIs(calls[p], PaymentStatusFailed)

\* Two calls ran side by side with the code of one pending session: both found
\* the user, one matched the session, the other found no pending session.
C3_Witness ==
    \E p \in Procs, q \in ReturnedWebhooks :
        /\ p # q
        /\ calls[p].op = "webhook"
        /\ calls[p].code = calls[q].code
        /\ calls[p].sid > 0
        /\ Cardinality(SessionsWithCode(calls[p].code)) = 1
        /\ calls[q].err = "no pending payment session found for code"
        /\ LedgerStatusIs(calls[q], PaymentStatusFailed)

\* ------------------------------------------------------------------------
\* C4
\* ------------------------------------------------------------------------

\* The ProcessWebhookPayment calls that have returned.
FinishedWebhooks ==
    started.webhook
    - Cardinality({p \in Procs : calls[p].op = "webhook" /\ calls[p].pc # "done"})

\* C4: the ledger holds one entry per finished ProcessWebhookPayment call,
\* whatever the outcome of the call, store failures included.
C4_OneEntryPerCall == Len(payments) = FinishedWebhooks

\* ------------------------------------------------------------------------
\* C5
\* ------------------------------------------------------------------------

\* The ProcessWebhookPayment calls that have finished.
DoneWebhooks == {p \in Procs : calls[p].op = "webhook" /\ calls[p].pc = "done"}

\* C5: a webhook whose amount is not 5,000,000 is resolved as ignored
\* whatever its content holds: the call returns the amount error, its ledger
\* entry is ignored and links no user, the call has run the amount check and
\* the ledger insert only (no marker search, no user lookup, no session
\* update), and sessions and users are as the call found them.
C5_WrongAmountIsIgnored ==
    \A p \in DoneWebhooks :
        LET c == calls[p] IN
        c.amount # Price =>
            /\ c.ret = "value"
            /\ c.err = "incorrect payment amount"
            /\ c.status = PaymentStatusIgnored
            /\ LedgerStatusIs(c, PaymentStatusIgnored)
            /\ payments[c.lid].user = NoUser
            /\ c.trace = <<"amount", "save">>
            /\ sessions = c.preSessions
            /\ users = c.preUsers

\* A webhook of a wrong amount carried the code of a payable session and left
\* the session pending.
C5_Witness ==
    \E p \in DoneWebhooks :
        LET c == calls[p] IN
        /\ c.amount > Price
        /\ LedgerStatusIs(c, PaymentStatusIgnored)
        /\ \E i \in 1..Len(c.preSessions) :
              /\ Payable(c, i)
              /\ CodeFollowsFirstMarker(c.content, c.preSessions[i].code)
              /\ sessions[i].status = PaymentStatusPending

\* ------------------------------------------------------------------------
\* C6
\* ------------------------------------------------------------------------

\* C6: a webhook of 5,000,000 is resolved as ignored for want of the marker
\* exactly when its content holds "ATMT" in no letter case; with the marker
\* present in any letter case the call goes on to the length check.
C6_NoMarkerIsIgnored ==
    \A p \in DoneWebhooks :
        LET c == calls[p] IN
        c.amount = Price =>
            /\ (c.err = "payment code not found in content")
               <=> ~HasMarkerAnyCase(c.content)
            /\ ~HasMarkerAnyCase(c.content) =>
                  /\ c.ret = "value"
                  /\ LedgerStatusIs(c, PaymentStatusIgnored)
                  /\ c.trace = <<"amount", "marker", "save">>
                  /\ sessions = c.preSessions
                  /\ users = c.preUsers
            /\ HasMarkerAnyCase(c.content) =>
                  SubSeq(c.trace, 1, 3) = <<"amount", "marker", "length">>

\* A webhook whose marker is not in upper case was processed.
C6_Witness ==
    \E p \in DoneWebhooks :
        LET c == calls[p] IN
        /\ c.amount = Price
        /\ HasMarkerAnyCase(c.content)
        /\ \A k \in 0..Len(c.content) : ~OccursAt(c.content, Marker, k)
        /\ LedgerStatusIs(c, PaymentStatusProcessed)

\* ------------------------------------------------------------------------
\* C7
\* ------------------------------------------------------------------------

\* The number of characters that follow the leftmost marker of the content.
AfterMarker(content) == Len(content) - (FirstMarker(content) + Len(Marker))

\* C7: a webhook of 5,000,000 whose content holds the marker is resolved as
\* ignored exactly when fewer than 8 characters follow the leftmost marker;
\* with 8 or more the call goes on to the user lookup.
C7_ShortCodeIsIgnored ==
    \A p \in DoneWebhooks :
        LET c == calls[p] IN
        (c.amount = Price /\ HasMarkerAnyCase(c.content)) =>
            /\ LedgerStatusIs(c, PaymentStatusIgnored)
               <=> AfterMarker(c.content) < CodeLen
            /\ AfterMarker(c.content) < CodeLen =>
                  /\ c.ret = "value"
                  /\ c.err = "invalid payment code format in content"
                  /\ c.trace = <<"amount", "marker", "length", "save">>
                  /\ sessions = c.preSessions
                  /\ users = c.preUsers
            /\ AfterMarker(c.content) >= CodeLen =>
                  SubSeq(c.trace, 1, 4) = <<"amount", "marker", "length", "findUser">>

\* A webhook with exactly 8 characters after the marker was processed.
C7_Witness ==
    \E p \in DoneWebhooks :
        LET c == calls[p] IN
        /\ c.amount = Price
        /\ HasMarkerAnyCase(c.content)
        /\ AfterMarker(c.content) = CodeLen
        /\ LedgerStatusIs(c, PaymentStatusProcessed)

\* ------------------------------------------------------------------------
\* C8
\* ------------------------------------------------------------------------

\* The content of the call c is well formed (the marker, then 8 characters or
\* more) and no session that was pending when the call started carries the
\* code that follows the marker.
NoEligibleSession(c) ==
    /\ c.amount = Price
    /\ HasMarkerAnyCase(c.content)
    /\ AfterMarker(c.content) >= CodeLen
    /\ \A i \in 1..Len(c.preSessions) :
          CodeFollowsFirstMarker(c.content, c.preSessions[i].code)
          => c.preSessions[i].status # PaymentStatusPending

\* C8: a webhook of 5,000,000 with the marker and a code of 8 characters, for
\* which no session is pending with that code (the code was never issued, or
\* its session is completed), is resolved as failed: the call returns the
\* payment, its ledger entry is failed (not ignored, not processed), and the
\* call has matched no session.
C8_NoEligibleSessionIsFailed ==
    \A p \in DoneWebhooks :
        LET c == calls[p] IN
        NoEligibleSession(c) =>
            /\ c.ret = "value"
            /\ c.status = PaymentStatusFailed
            /\ LedgerStatusIs(c, PaymentStatusFailed)
            /\ c.err \in {"no user found with payment code",
                          "user is banned",
                          "no pending payment session found for code"}
            /\ c.sid = 0

\* A webhook carried the code of a session that was completed already, and
\* was resolved as failed.
C8_Witness ==
    \E p \in DoneWebhooks :
        LET c == calls[p] IN
        /\ NoEligibleSession(c)
        /\ \E i \in 1..Len(c.preSessions) :
              /\ CodeFollowsFirstMarker(c.content, c.preSessions[i].code)
              /\ c.preSessions[i].status = PaymentStatusCompleted
        /\ LedgerStatusIs(c, PaymentStatusFailed)

\* ------------------------------------------------------------------------
\* C9
\* ------------------------------------------------------------------------

\* This step starts an InitiatePayment call in the slot p.
InitiateStarts(p) ==
    /\ CanStart(p)
    /\ started'.initiate = started.initiate + 1

\* C9: an InitiatePayment call for an unknown user returns "user not found"
\* (HTTP 404), for a banned user the banned error (HTTP 403), for a user who
\* is not banned and owns the product the already-owns error (HTTP 409); the
\* three errors and statuses differ, and a rejected call returns no session,
\* inserts no session and leaves every user as it was. (The checks run in
\* this order, so a banned owner gets the banned error.)
C9_RejectedInitiateCreatesNothing ==
    [][\A p \in Procs :
          InitiateStarts(p) =>
              LET c == calls'[p]
                  known == c.uid \in Users
                  banned == known /\ users[c.uid].banned
                  owns == known /\ ~users[c.uid].banned /\ users[c.uid].owned
              IN /\ c.op = "initiate"
                 /\ ~known => /\ c.err = "user not found"
                              /\ InitiateHttpStatus(c.err) = 404
                 /\ banned => /\ c.err = "user is banned and cannot make payments"
                              /\ InitiateHttpStatus(c.err) = 403
                 /\ owns => /\ c.err = "user already owns the product"
                            /\ InitiateHttpStatus(c.err) = 409
                 /\ (~known \/ banned \/ owns) =>
                        /\ c.pc = "done"
                        /\ c.ret = "nil"
                        /\ c.sid = 0
                        /\ sessions' = sessions
                        /\ users' = users
                 /\ ~(~known \/ banned \/ owns) => c.pc = "genCode"
      ]_vars

\* An InitiatePayment call of a user who owns the product was rejected.
C9_Witness ==
    \E p \in Procs :
        LET c == calls[p] IN
        /\ c.op = "initiate" /\ c.pc = "done"
        /\ c.err = "user already owns the product"
        /\ users[c.uid].owned
        /\ c.sid = 0

\* ------------------------------------------------------------------------
\* C10
\* ------------------------------------------------------------------------

\* This step is the successful return of the InitiatePayment call of p.
InitiateSucceeds(p) ==
    /\ calls[p].op = "initiate"
    /\ calls[p].pc # "done"
    /\ calls'[p].pc = "done"
    /\ calls'[p].err = "none"

\* What C10 promises of the session the call c has inserted, in the state the
\* call returns in.
C10_Outcome(c) ==
    /\ c.ret = "value"
    /\ c.sid \in 1..Len(sessions')
    /\ LET s == sessions'[c.sid] IN
       /\ s.status = PaymentStatusPending
       /\ s.amount = Price
       /\ s.user = c.uid
       /\ s.completedAt = NoTime
       /\ s.expiresAt = s.createdAt + ExpiryMinutes
       /\ users'[c.uid].code = s.code

\* C10: when an InitiatePayment call returns with success, the session it
\* has inserted is pending, of amount 5,000,000, owned by the caller, with no
\* completion time, expiring 15 minutes after its creation, and the caller's
\* payment_code is the code of the session.
C10_NewSessionIsPending ==
    [][\A p \in Procs : InitiateSucceeds(p) => C10_Outcome(calls'[p])]_vars

\* ------------------------------------------------------------------------
\* C11
\* ------------------------------------------------------------------------

\* C11: with the InitiatePayment calls run one after another, no two
\* sessions, of whatever status, carry the same code, also when the generator
\* returns a code that is in use.
C11_SequentialCodesUnique ==
    \A i, j \in 1..Len(sessions) :
        sessions[i].code = sessions[j].code => i = j

\* The generator has returned the code of a completed session and the call
\* is back at the head of its loop.
C11_Witness ==
    \E p \in Procs :
        /\ calls[p].op = "initiate"
        /\ calls[p].pc = "genCode"
        /\ calls[p].code # NoCode
        /\ \E i \in 1..Len(sessions) :
              /\ sessions[i].code = calls[p].code
              /\ sessions[i].status = PaymentStatusCompleted

\* ------------------------------------------------------------------------
\* C12
\* ------------------------------------------------------------------------

\* C12: whatever a ProcessWebhookPayment call returned (an ignored, failed or
\* processed payment, or a store error), HandleSepayWebhook answers with
\* HTTP 200, and the status of the body is "success" exactly when the call
\* has resolved the webhook as processed.
C12_AlwaysHttp200 ==
    \A p \in DoneWebhooks :
        LET c == calls[p]
            r == HandleSepayWebhook(c)
        IN /\ r.http = 200
           /\ r.status = "success"
              <=> (c.ret = "value" /\ LedgerStatusIs(c, PaymentStatusProcessed))

\* A call that completed the session and then hit a store failure was
\* answered with HTTP 200 and the status "error".
C12_Witness ==
    \E p \in DoneWebhooks :
        LET c == calls[p] IN
        /\ c.ret = "nil"
        /\ c.sid > 0
        /\ HandleSepayWebhook(c) = [http |-> 200, status |-> "error"]

\* ------------------------------------------------------------------------
\* C13
\* ------------------------------------------------------------------------

\* This step is the return of the call of p with a processed payment.
ProcessedReturns(p) ==
    /\ calls[p].op = "webhook"
    /\ calls[p].pc # "done"
    /\ calls'[p].pc = "done"
    /\ calls'[p].ret = "value"
    /\ calls'[p].status = PaymentStatusProcessed

\* C13: when a ProcessWebhookPayment call returns a processed payment, the
\* user the ledger entry links owns the product and has no pending payment
\* code.
C13_ProcessedClearsCode ==
    [][\A p \in Procs :
          ProcessedReturns(p) =>
              LET c == calls'[p]
                  u == payments'[c.lid].user
              IN /\ c.lid \in 1..Len(payments')
                 /\ payments'[c.lid].status = PaymentStatusProcessed
                 /\ u \in Users
                 /\ users'[u].owned
                 /\ users'[u].code = NoCode
      ]_vars

\* ------------------------------------------------------------------------
\* C14
\* ------------------------------------------------------------------------

\* C14: a ledger entry links a user exactly when its status is processed
\* (ignored and failed entries link none), and the user a processed entry
\* links is the owner of the session its call moved from pending to
\* completed.
C14_LinkedUserIsSessionOwner ==
    /\ \A k \in 1..Len(payments) :
          (payments[k].user # NoUser)
          <=> (payments[k].status = PaymentStatusProcessed)
    /\ \A p \in ReturnedWebhooks :
          LET c == calls[p] IN
          LedgerStatusIs(c, PaymentStatusProcessed) =>
              /\ c.sid \in 1..Len(sessions)
              /\ c.preSessions[c.sid].status = PaymentStatusPending
              /\ sessions[c.sid].status = PaymentStatusCompleted
              /\ payments[c.lid].user = sessions[c.sid].user

\* ------------------------------------------------------------------------
\* C15
\* ------------------------------------------------------------------------

\* The call c carries 5,000,000 and, after its leftmost marker, the code of
\* session i, which was pending when the call started and whose owner was
\* banned then.
BannedOwnerCase(c, i) ==
    /\ c.amount = Price
    /\ c.preSessions[i].status = PaymentStatusPending
    /\ CodeFollowsFirstMarker(c.content, c.preSessions[i].code)
    /\ c.preUsers[c.preSessions[i].user].banned

\* C15 as stated: a webhook of 5,000,000 with the code of a pending session
\* whose owner is banned gets a failed ledger entry, the owner is not
\* granted, and the session has been moved to completed.
C15_BannedOwnerSessionCompleted ==
    \A p \in DoneWebhooks :
        LET c == calls[p] IN
        \A i \in 1..Len(c.preSessions) :
            BannedOwnerCase(c, i) =>
                /\ LedgerStatusIs(c, PaymentStatusFailed)
                /\ ~users[c.preSessions[i].user].owned
                /\ sessions[i].status = PaymentStatusCompleted

\* This step is the return of the ProcessWebhookPayment call of p.
WebhookReturns(p) ==
    /\ calls'[p].op = "webhook"
    /\ calls'[p].pc = "done"
    /\ calls'[p] # calls[p]

\* C15, amended: a webhook of 5,000,000, processed with no other call or ban
\* running beside it, with the code of a pending session whose owner is
\* banned, no user who is not banned holding that code, gets a failed ledger
\* entry that links no user; the call does not grant the owner and the session stays
\* pending: when the call returns it has changed no session and no user.
C15_BannedOwnerSessionStaysPending ==
    [][\A p \in Procs :
          WebhookReturns(p) =>
              LET c == calls'[p] IN
              \A i \in 1..Len(c.preSessions) :
                  (/\ BannedOwnerCase(c, i)
                   /\ \A u \in Users :
                         c.preUsers[u].code = c.preSessions[i].code
                         => c.preUsers[u].banned)
                  => /\ c.ret = "value"
                     /\ c.lid = Len(payments')
                     /\ payments'[c.lid].status = PaymentStatusFailed
                     /\ payments'[c.lid].user = NoUser
                     /\ users'[c.preSessions[i].user].owned
                        = c.preUsers[c.preSessions[i].user].owned
                     /\ sessions'[i].status = PaymentStatusPending
                     /\ sessions' = c.preSessions
                     /\ users' = c.preUsers
      ]_vars

\* A webhook carried the code a banned owner holds for a pending session,
\* and the call stopped at the banned check.
C15_Witness ==
    \E p \in DoneWebhooks :
        LET c == calls[p] IN
        /\ c.err = "user is banned"
        /\ \E i \in 1..Len(c.preSessions) :
              /\ BannedOwnerCase(c, i)
              /\ c.preUsers[c.preSessions[i].user].code = c.preSessions[i].code
              /\ sessions[i].status = PaymentStatusPending

\* ------------------------------------------------------------------------
\* C16
\* ------------------------------------------------------------------------

\* The steps the call c ran before it saved its payment.
StepsBeforeSave(c) == SubSeq(c.trace, 1, Len(c.trace) - 1)

\* The call c ran its steps in this order, up to some step, and then saved
\* its payment.
RanInOrder(c, order) ==
    /\ Len(c.trace) \in 2..(Len(order) + 1)
    /\ c.trace[Len(c.trace)] = "save"
    /\ StepsBeforeSave(c) = SubSeq(order, 1, Len(c.trace) - 1)

\* The call c failed at the resolution of the user.
FailedAtUser(c) ==
    c.err \in {"no user found with payment code", "user is banned"}

\* C16 as stated: the call checks the amount, the marker and the length,
\* then runs the conditional update of the session, then looks the user up
\* and checks the banned flag, then grants; a failure at the user happens
\* after the session was completed.
C16_SessionUpdateBeforeUserLookup ==
    \A p \in ReturnedWebhooks :
        LET c == calls[p] IN
        /\ RanInOrder(c, <<"amount", "marker", "length", "updateSession",
                           "findUser", "banned", "updateUser">>)
        /\ FailedAtUser(c) => c.sid > 0

\* C16, amended: the call checks the amount, the marker and the length,
\* then looks the user up by the code and checks the banned flag, then runs
\* the conditional update of the session, then grants; a call that finds a
\* banned user stops there, and a failure at the user happens before any
\* session update: the call has matched no session.
C16_UserLookupBeforeSessionUpdate ==
    \A p \in ReturnedWebhooks :
        LET c == calls[p] IN
        /\ RanInOrder(c, <<"amount", "marker", "length", "findUser",
                           "banned", "updateSession", "updateUser">>)
        /\ FailedAtUser(c) => c.sid = 0
        /\ (c.user # NoUser /\ c.preUsers[c.user].banned)
           => /\ c.err = "user is banned"
              /\ StepsBeforeSave(c) = <<"amount", "marker", "length",
                                        "findUser", "banned">>

\* One call went through every step and was processed.
C16_Witness ==
    \E p \in ReturnedWebhooks :
        /\ calls[p].trace = <<"amount", "marker", "length", "findUser", "banned",
                              "updateSession", "updateUser", "save">>
        /\ LedgerStatusIs(calls[p], PaymentStatusProcessed)

\* ------------------------------------------------------------------------
\* C17
\* ------------------------------------------------------------------------

\* C17: in every reachable state, overlapping InitiatePayment calls
\* included, each code is carried by one session at most, whatever the
\* status of the sessions.
C17_ConcurrentCodesUnique ==
    \A code \in Codes : Cardinality(SessionsWithCode(code)) <= 1

\* ------------------------------------------------------------------------
\* C18
\* ------------------------------------------------------------------------

\* C18: every session is created pending, the only change of status a
\* session undergoes is from pending to completed, a completed session keeps
\* its status, no session is removed, and no session is ever expired.
C18_OnlyPendingToCompleted ==
    [][/\ Len(sessions') >= Len(sessions)
       /\ \A i \in 1..Len(sessions') :
             /\ sessions'[i].status # PaymentStatusExpired
             /\ IF i > Len(sessions)
                THEN sessions'[i].status = PaymentStatusPending
                ELSE \/ sessions'[i].status = sessions[i].status
                     \/ /\ sessions[i].status = PaymentStatusPending
                        /\ sessions'[i].status = PaymentStatusCompleted
      ]_vars

\* A session is completed and a later webhook with its code has found it
\* completed and left it so.
C18_Witness ==
    \E p \in ReturnedWebhooks :
        \E i \in 1..Len(calls[p].preSessions) :
            /\ calls[p].code = sessions[i].code
            /\ calls[p].preSessions[i].status = PaymentStatusCompleted
            /\ sessions[i].status = PaymentStatusCompleted

\* ------------------------------------------------------------------------
\* C19
\* ------------------------------------------------------------------------

\* C19: a webhook of 5,000,000 with the code of a session that is payable
\* through its code, returning at a time later than the expiresAt of the
\* session, has completed the session, granted its owner and written a
\* processed ledger entry, as it does before the expiry.
C19_ExpiredSessionIsPaid ==
    [][\A p \in Procs :
          WebhookReturns(p) =>
              LET c == calls'[p] IN
              \A i \in 1..Len(c.preSessions) :
                  (/\ c.amount = Price
                   /\ Payable(c, i)
                   /\ CodeFollowsFirstMarker(c.content, c.preSessions[i].code)
                   /\ now' > c.preSessions[i].expiresAt)
                  => /\ sessions'[i].status = PaymentStatusCompleted
                     /\ users'[sessions'[i].user].owned
                     /\ c.lid = Len(payments')
                     /\ payments'[c.lid].status = PaymentStatusProcessed
                     /\ payments'[c.lid].user = sessions'[i].user
      ]_vars

\* A session was completed at a time later than its expiresAt by a call that
\* found it expired and pending.
C19_Witness ==
    \E p \in ReturnedWebhooks :
        LET c == calls[p] IN
        /\ c.sid > 0
        /\ Payable(c, c.sid)
        /\ sessions[c.sid].status = PaymentStatusCompleted
        /\ sessions[c.sid].completedAt > sessions[c.sid].expiresAt
        /\ users[sessions[c.sid].user].owned
        /\ LedgerStatusIs(c, PaymentStatusProcessed)

\* ------------------------------------------------------------------------
\* C20
\* ------------------------------------------------------------------------

\* When the call c started, sessions i and j were pending sessions of one
\* user, j created after i and the last session of that user.
TwoPendingSessions(c, i, j) ==
    /\ i < j
    /\ c.preSessions[i].user = c.preSessions[j].user
    /\ c.preSessions[i].status = PaymentStatusPending
    /\ c.preSessions[j].status = PaymentStatusPending
    /\ \A k \in (j + 1)..Len(c.preSessions) :
          c.preSessions[k].user # c.preSessions[j].user

\* C20: after a user has created a session S1 and then a session S2, both
\* still pending, the user's payment_code is the code of S2, and a webhook of
\* 5,000,000 with the code of S1 gets a failed ledger entry, leaves S1
\* pending and does not grant the user.
C20_LastPendingCodeWins ==
    \A p \in DoneWebhooks :
        LET c == calls[p] IN
        \A i, j \in 1..Len(c.preSessions) :
            TwoPendingSessions(c, i, j) =>
                /\ c.preUsers[c.preSessions[j].user].code = c.preSessions[j].code
                /\ (/\ c.amount = Price
                    /\ CodeFollowsFirstMarker(c.content, c.preSessions[i].code))
                   => /\ c.ret = "value"
                      /\ LedgerStatusIs(c, PaymentStatusFailed)
                      /\ sessions[i].status = PaymentStatusPending
                      /\ ~users[c.preSessions[i].user].owned
                      /\ sessions = c.preSessions
                      /\ users = c.preUsers

\* A webhook with the code of the first of two pending sessions of a user
\* was resolved as failed.
C20_Witness ==
    \E p \in DoneWebhooks :
        LET c == calls[p] IN
        \E i, j \in 1..Len(c.preSessions) :
            /\ TwoPendingSessions(c, i, j)
            /\ c.amount = Price
            /\ CodeFollowsFirstMarker(c.content, c.preSessions[i].code)
            /\ c.err = "no user found with payment code"
            /\ LedgerStatusIs(c, PaymentStatusFailed)

\* ------------------------------------------------------------------------
\* C21
\* ------------------------------------------------------------------------

\* C21: in every reachable state, under any interleaving of the calls, a
\* code is the payment_code of one user at most.
C21_OneHolderPerCode ==
    \A code \in Codes : Cardinality(UsersWithCode(code)) <= 1

\* ------------------------------------------------------------------------
\* C22
\* ------------------------------------------------------------------------

\* The call of slot p takes a step as ProcessWebhookPayment.
WebhookSteps(p) ==
    /\ calls'[p].op = "webhook"
    /\ calls'[p] # calls[p]

\* The call c has run the update of its user.
UpdatedUser(c) == \E k \in 1..Len(c.trace) : c.trace[k] = "updateUser"

\* C22: a step of ProcessWebhookPayment changes a user record only when the
\* call has matched a session, which it found pending and moved to completed,
\* and that call resolves as processed; a call that resolves as ignored or
\* failed has changed no user record in any of its steps.
C22_UsersChangeOnlyOnMatch ==
    [][\A p \in Procs :
          /\ (WebhookSteps(p) /\ users' # users) =>
                /\ calls[p].pc = "updateUser"
                /\ calls[p].sid \in 1..Len(sessions)
                /\ sessions[calls[p].sid].status = PaymentStatusCompleted
                /\ sessions[calls[p].sid].code = calls[p].code
                /\ UpdatedUser(calls'[p])
          /\ WebhookReturns(p) =>
                /\ calls'[p].lid \in 1..Len(payments')
                /\ UpdatedUser(calls'[p]) <=>
                      payments'[calls'[p].lid].status = PaymentStatusProcessed
                /\ payments'[calls'[p].lid].status
                      \in {PaymentStatusIgnored, PaymentStatusFailed}
                      => ~UpdatedUser(calls'[p])]_vars

\* C22 witness: a call has returned, failed at a banned user who holds its
\* code, with every user record as the call found it, after another call
\* was processed and granted its user.
C22_Witness ==
    \E p \in Procs :
       /\ calls[p].op = "webhook" /\ calls[p].pc = "done"
       /\ LedgerStatusIs(calls[p], PaymentStatusFailed)
       /\ calls[p].err = "user is banned"
       /\ ~UpdatedUser(calls[p])
       /\ users = calls[p].preUsers
       /\ users[calls[p].user].code = calls[p].code
       /\ \E k \in 1..Len(payments) :
             /\ payments[k].status = PaymentStatusProcessed
             /\ users[payments[k].user].owned

\* ------------------------------------------------------------------------
\* C23
\* ------------------------------------------------------------------------

\* The sessions of user b are the same before and after the step: none is
\* changed, none is added.
SessionsOfUnchanged(b) ==
    /\ \A i \in 1..Len(sessions) : sessions[i].user = b => sessions'[i] = sessions[i]
    /\ \A i \in (Len(sessions) + 1)..Len(sessions') : sessions'[i].user # b

\* The step leaves the record and the sessions of every user but a alone.
OthersUntouched(a) ==
    \A b \in Users \ {a} : users'[b] = users[b] /\ SessionsOfUnchanged(b)

\* The code was issued to user a: a session of a carries it.
IssuedTo(code, a) ==
    \E i \in 1..Len(sessions) : sessions[i].user = a /\ sessions[i].code = code

\* C23: under every interleaving, a step of an InitiatePayment call of user
\* a, and a step of a ProcessWebhookPayment call that carries a code issued
\* to user a, leaves the record and all the sessions of every other user
\* unchanged.
C23_OtherUsersUntouched ==
    [][\A p \in Procs :
          /\ (calls'[p].op = "initiate" /\ calls'[p] # calls[p])
                => OthersUntouched(calls'[p].uid)
          /\ WebhookSteps(p)
                => \A a \in Users :
                      IssuedTo(calls'[p].code, a) => OthersUntouched(a)]_vars

\* ------------------------------------------------------------------------
\* C24
\* ------------------------------------------------------------------------

\* The call of slot p is an InitiatePayment call in its generate-and-check
\* loop: its user exists, is not banned and does not own the product.
InLoop(p) == calls[p].op = "initiate" /\ calls[p].pc = "genCode"

\* C24: under fair scheduling, from every state of the session store, every
\* InitiatePayment call that has entered its generate-and-check loop
\* eventually returns, with a session or with an error.
C24_InitiateReturns ==
    \A p \in Procs : InLoop(p) ~> (calls[p].pc = "done")

\* ------------------------------------------------------------------------
\* C25
\* ------------------------------------------------------------------------

\* The 8 characters of the content, as received, that follow its leftmost
\* marker.
CharsAfterMarker(content) ==
    Slice(content, FirstMarker(content) + Len(Marker),
          FirstMarker(content) + MarkerPlusCode)

\* The returned webhook calls that went to the lookup of the user.
LookedUp == {p \in DoneWebhooks : calls[p].code # NoCode}

\* C25 as stated: the code a call looks up is the 8 characters that follow
\* the marker exactly as the content holds them, and a call whose 8
\* characters differ from the code of a session in letter case does not match
\* that session.
C25_LookupCodeIsVerbatim ==
    \A p \in LookedUp :
        LET c == calls[p] IN
        /\ c.code = CharsAfterMarker(c.content)
        /\ c.sid # 0 => sessions[c.sid].code = CharsAfterMarker(c.content)

\* C25, amended: the code a call looks up is the 8 characters of the content
\* that follow the marker converted to upper case, so a call whose 8
\* characters differ from the code of a session only in letter case looks up
\* that code, and the session it matches carries it.
C25_LookupCodeIsUpperCased ==
    \A p \in LookedUp :
        LET c == calls[p] IN
        /\ c.code = ToUpper(CharsAfterMarker(c.content))
        /\ c.sid # 0 => sessions[c.sid].code = ToUpper(CharsAfterMarker(c.content))

\* A webhook that carries an issued code in lower case matched the session
\* of that code and was processed.
C25_Witness ==
    \E p \in LookedUp :
        LET c == calls[p] IN
        /\ CharsAfterMarker(c.content) = Code1Lower
        /\ c.sid # 0
        /\ sessions[c.sid].code = Code1
        /\ sessions[c.sid].status = PaymentStatusCompleted
        /\ LedgerStatusIs(c, PaymentStatusProcessed)

\* ------------------------------------------------------------------------
\* C26
\* ------------------------------------------------------------------------

\* The owner of session i owns the product and a processed ledger entry
\* links the owner.
OwnerGranted(i) ==
    /\ users[sessions[i].user].owned
    /\ \E k \in 1..Len(payments) :
          /\ payments[k].status = PaymentStatusProcessed
          /\ payments[k].user = sessions[i].user

\* C26: in every state in which no ProcessWebhookPayment call is in
\* progress, under any interleaving of the calls and with no store failure,
\* the owner of every completed session owns the product and is linked by a
\* processed ledger entry.
C26_CompletedMeansGranted ==
    NoWebhookRunning =>
        \A i \in 1..Len(sessions) :
            sessions[i].status = PaymentStatusCompleted => OwnerGranted(i)

\* ------------------------------------------------------------------------
\* C27
\* ------------------------------------------------------------------------

\* The processed ledger entries that link user u.
ProcessedFor(u) ==
    {k \in 1..Len(payments) :
        payments[k].status = PaymentStatusProcessed /\ payments[k].user = u}

\* The completed sessions of user u.
CompletedOf(u) ==
    {i \in 1..Len(sessions) :
        sessions[i].status = PaymentStatusCompleted /\ sessions[i].user = u}

\* C27: under any interleaving of a user's InitiatePayment calls with
\* ProcessWebhookPayment calls, no user is linked by more than one processed
\* ledger entry and no user has more than one completed session.
C27_OnePurchasePerUser ==
    \A u \in Users :
        /\ Cardinality(ProcessedFor(u)) <= 1
        /\ Cardinality(CompletedOf(u)) <= 1

\* ------------------------------------------------------------------------
\* C28
\* ------------------------------------------------------------------------

\* The offsets at which the content holds the marker, in any letter case,
\* after its leftmost occurrence.
LaterMarkers(content) ==
    {j \in (FirstMarker(content) + 1)..Len(content) :
        OccursAnyCase(content, Marker, j)}

\* The 8 characters that follow the marker at offset j, in upper case, when
\* the content holds as many.
CodeAt(content, j) ==
    ToUpper(Slice(content, j + Len(Marker), j + MarkerPlusCode))

\* C28: of a content that holds the marker more than once, the call reads
\* the 8 characters after the leftmost marker only: with fewer than 8
\* characters there the webhook is ignored, otherwise they are the code the
\* call looks up, and the call matches no session through the characters
\* that follow a later marker.
C28_LeftmostMarkerOnly ==
    \A p \in DoneWebhooks :
        LET c == calls[p] IN
        (c.amount = Price /\ HasMarkerAnyCase(c.content)) =>
            /\ AfterMarker(c.content) < CodeLen =>
                  /\ c.code = NoCode
                  /\ LedgerStatusIs(c, PaymentStatusIgnored)
            /\ AfterMarker(c.content) >= CodeLen =>
                  c.code = CodeAt(c.content, FirstMarker(c.content))
            /\ \A j \in LaterMarkers(c.content) :
                  (/\ j + MarkerPlusCode <= Len(c.content)
                   /\ CodeAt(c.content, j) # CodeAt(c.content, FirstMarker(c.content)))
                  => /\ c.code # CodeAt(c.content, j)
                     /\ c.sid # 0 => sessions[c.sid].code # CodeAt(c.content, j)

\* A webhook whose content holds the marker, other text, and then the marker
\* followed by the code of a pending session that its owner holds: the call
\* has failed for want of a user and the session is still pending.
C28_Witness ==
    \E p \in DoneWebhooks :
        LET c == calls[p] IN
        /\ c.amount = Price
        /\ HasMarkerAnyCase(c.content)
        /\ \E j \in LaterMarkers(c.content) :
              /\ j + MarkerPlusCode <= Len(c.content)
              /\ CodeAt(c.content, j) # c.code
              /\ \E i \in 1..Len(sessions) :
                    /\ sessions[i].code = CodeAt(c.content, j)
                    /\ sessions[i].status = PaymentStatusPending
                    /\ users[sessions[i].user].code = sessions[i].code
        /\ c.err = "no user found with payment code"
        /\ LedgerStatusIs(c, PaymentStatusFailed)

\* ------------------------------------------------------------------------
\* C29
\* ------------------------------------------------------------------------

\* The returned ProcessWebhookPayment calls that returned a store failure:
\* no payment, and an error.
StoreFailed ==
    {p \in DoneWebhooks : calls[p].ret = "nil" /\ calls[p].err # "none"}

\* C29: when ProcessWebhookPayment, run with no other call beside it, has
\* returned a store failure, the sessions and the users are as the call
\* found them: it has moved no session to completed and modified no user.
C29_StoreFailureChangesNothing ==
    \A p \in StoreFailed :
        /\ sessions = calls[p].preSessions
        /\ users = calls[p].preUsers

\* ------------------------------------------------------------------------
\* C30
\* ------------------------------------------------------------------------

\* The returned InitiatePayment calls that returned an error.
FailedInitiates ==
    {p \in Procs : /\ calls[p].op = "initiate"
                   /\ calls[p].pc = "done"
                   /\ calls[p].err # "none"}

\* C30: an InitiatePayment call that has returned an error, of any kind, has
\* inserted no session.
C30_ErrorPersistsNoSession ==
    \A p \in FailedInitiates : calls[p].sid = 0

====
